---- MODULE Spec2Model ----
(***************************************************************************)
(* Model of imdb-web/app/page.tsx: the dual-range hook (useDualRange), the *)
(* query serializer (buildQuery / queryString), the genres dropdown, the   *)
(* genre-vocabulary effect and the search pipeline (fetchMovies /          *)
(* fetchProviders) of the Page component.                                  *)
(*                                                                         *)
(* Conventions.  A JavaScript string is a sequence of one-character        *)
(* strings.  A JavaScript value is a tagged record (Undef, Null, Str, Num, *)
(* Arr).  Every number is held in tenths, so that the rating slider's step *)
(* of 0.1 is exact: Num(75) is 7.5 and Num(19850) is 1985.                 *)
(***************************************************************************)
EXTENDS Integers, Sequences, FiniteSets, TLC

(* ------------------------------ strings ------------------------------- *)

K_tconst == <<"t", "c", "o", "n", "s", "t">>
K_primary_title == <<"p", "r", "i", "m", "a", "r", "y", "_", "t", "i", "t", "l", "e">>
K_genres == <<"g", "e", "n", "r", "e", "s">>
K_apply_all_genres == <<"a", "p", "p", "l", "y", "_", "a", "l", "l", "_", "g", "e", "n", "r", "e", "s">>
K_start_year == <<"s", "t", "a", "r", "t", "_", "y", "e", "a", "r">>
K_end_year == <<"e", "n", "d", "_", "y", "e", "a", "r">>
K_average_rating_min == <<"a", "v", "e", "r", "a", "g", "e", "_", "r", "a", "t", "i", "n", "g", "_", "m", "i", "n">>
K_average_rating_max == <<"a", "v", "e", "r", "a", "g", "e", "_", "r", "a", "t", "i", "n", "g", "_", "m", "a", "x">>
K_runtime_minutes_min == <<"r", "u", "n", "t", "i", "m", "e", "_", "m", "i", "n", "u", "t", "e", "s", "_", "m", "i", "n">>
K_runtime_minutes_max == <<"r", "u", "n", "t", "i", "m", "e", "_", "m", "i", "n", "u", "t", "e", "s", "_", "m", "a", "x">>
K_num_votes == <<"n", "u", "m", "_", "v", "o", "t", "e", "s">>
K_limit == <<"l", "i", "m", "i", "t">>

S_tt1 == <<"t", "t", "1">>
S_HTTP_500 == <<"H", "T", "T", "P", " ", "5", "0", "0">>
S_FailedToFetch == <<"F", "a", "i", "l", "e", "d", " ", "t", "o", " ", "f", "e", "t", "c", "h">>
S_dk == <<"d", "k">>

G_Action == <<"A", "c", "t", "i", "o", "n">>
G_Adventure == <<"A", "d", "v", "e", "n", "t", "u", "r", "e">>
G_Animation == <<"A", "n", "i", "m", "a", "t", "i", "o", "n">>
G_Biography == <<"B", "i", "o", "g", "r", "a", "p", "h", "y">>
G_Comedy == <<"C", "o", "m", "e", "d", "y">>
G_Crime == <<"C", "r", "i", "m", "e">>
G_Documentary == <<"D", "o", "c", "u", "m", "e", "n", "t", "a", "r", "y">>
G_Drama == <<"D", "r", "a", "m", "a">>
G_Family == <<"F", "a", "m", "i", "l", "y">>
G_Fantasy == <<"F", "a", "n", "t", "a", "s", "y">>
G_Film_Noir == <<"F", "i", "l", "m", "-", "N", "o", "i", "r">>
G_History == <<"H", "i", "s", "t", "o", "r", "y">>
G_Horror == <<"H", "o", "r", "r", "o", "r">>
G_Music == <<"M", "u", "s", "i", "c">>
G_Musical == <<"M", "u", "s", "i", "c", "a", "l">>
G_Mystery == <<"M", "y", "s", "t", "e", "r", "y">>
G_Romance == <<"R", "o", "m", "a", "n", "c", "e">>
G_Sci_Fi == <<"S", "c", "i", "-", "F", "i">>
G_Sport == <<"S", "p", "o", "r", "t">>
G_Thriller == <<"T", "h", "r", "i", "l", "l", "e", "r">>
G_War == <<"W", "a", "r">>
G_Western == <<"W", "e", "s", "t", "e", "r", "n">>

GENRE_FALLBACK ==
    << G_Action, G_Adventure, G_Animation, G_Biography, G_Comedy, G_Crime,
       G_Documentary, G_Drama, G_Family, G_Fantasy, G_Film_Noir, G_History,
       G_Horror, G_Music, G_Musical, G_Mystery, G_Romance, G_Sci_Fi,
       G_Sport, G_Thriller, G_War, G_Western >>

(* ---------------------------- JS values -------------------------------- *)

Undef == [t |-> "undefined"]
Null == [t |-> "null"]
Str(s) == [t |-> "string", s |-> s]
Num(tenths) == [t |-> "number", n |-> tenths]
Arr(a) == [t |-> "array", a |-> a]

Digit == <<"0", "1", "2", "3", "4", "5", "6", "7", "8", "9">>

RECURSIVE IntToStr(_)
IntToStr(n) ==
    IF n < 10 THEN <<Digit[n + 1]>>
    ELSE IntToStr(n \div 10) \o <<Digit[(n % 10) + 1]>>

\* The text toFixed(1) would give: 70 -> "7.0".
NumToFixed1(tenths) ==
    IntToStr(tenths \div 10) \o <<".">> \o <<Digit[(tenths % 10) + 1]>>

\* String(v) of a non-negative number held in tenths: 70 -> "7", 75 -> "7.5".
NumToStr(tenths) ==
    IF tenths % 10 = 0 THEN IntToStr(tenths \div 10)
    ELSE IntToStr(tenths \div 10) \o <<".">> \o <<Digit[(tenths % 10) + 1]>>

RECURSIVE Join(_, _)
Join(list, sep) ==
    IF list = <<>> THEN <<>>
    ELSE IF Len(list) = 1 THEN list[1]
    ELSE list[1] \o sep \o Join(Tail(list), sep)

\* String(v) for the values buildQuery meets.
ToStr(v) ==
    CASE v.t = "string" -> v.s
      [] v.t = "number" -> NumToStr(v.n)
      [] v.t = "array" -> Join([i \in 1..Len(v.a) |-> v.a[i].s], <<",">>)
      [] v.t = "undefined" -> <<"u", "n", "d", "e", "f", "i", "n", "e", "d">>
      [] v.t = "null" -> <<"n", "u", "l", "l">>

\* x || undefined, for a string x.
OrUndefined(s) == IF s = <<>> THEN Undef ELSE Str(s)

(* ------------------------------ clamp ---------------------------------- *)

Min2(a, b) == IF a <= b THEN a ELSE b
Max2(a, b) == IF a >= b THEN a ELSE b

clamp(n, min, max) == Min2(max, Max2(min, n))

(* ----------------------------- buildQuery ------------------------------ *)

Unreserved ==
    {"a", "b", "c", "d", "e", "f", "g", "h", "i", "j", "k", "l", "m",
     "n", "o", "p", "q", "r", "s", "t", "u", "v", "w", "x", "y", "z",
     "A", "B", "C", "D", "E", "F", "G", "H", "I", "J", "K", "L", "M",
     "N", "O", "P", "Q", "R", "S", "T", "U", "V", "W", "X", "Y", "Z"}
    \cup {Digit[i] : i \in 1..10}

\* The percent-encodings of the other characters of the model's alphabet.
PctCode(c) ==
    CASE c = "," -> <<"%", "2", "C">>
      [] c = " " -> <<"%", "2", "0">>
      [] c = "=" -> <<"%", "3", "D">>
      [] c = "&" -> <<"%", "2", "6">>
      [] c = "?" -> <<"%", "3", "F">>
      [] c = "%" -> <<"%", "2", "5">>
      [] OTHER -> <<c>>

\* application/x-www-form-urlencoded byte serializer (URLSearchParams.toString).
FormEncodeChar(c) ==
    IF c \in Unreserved \cup {"*", "-", ".", "_"} THEN <<c>>
    ELSE IF c = " " THEN <<"+">>
    ELSE PctCode(c)

RECURSIVE FormEncode(_)
FormEncode(s) ==
    IF s = <<>> THEN <<>> ELSE FormEncodeChar(Head(s)) \o FormEncode(Tail(s))

\* encodeURIComponent: leaves A-Z a-z 0-9 - _ . ! ~ * ' ( ) alone.
UriEncodeChar(c) ==
    IF c \in Unreserved \cup {"-", "_", ".", "!", "~", "*", "'", "(", ")"} THEN <<c>>
    ELSE PctCode(c)

RECURSIVE encodeURIComponent(_)
encodeURIComponent(s) ==
    IF s = <<>> THEN <<>> ELSE UriEncodeChar(Head(s)) \o encodeURIComponent(Tail(s))

SkippedWhenFalsy(v) == v = Undef \/ v = Null \/ v = Str(<<>>) \/ v = Num(0)

Skipped(v) == v = Undef \/ v = Null \/ v = Str(<<>>)


\* The entries one (k, v) pair of params appends to the URLSearchParams.
Appended(k, v) ==
    IF Skipped(v) THEN <<>>
    ELSE IF v.t = "array" THEN [i \in 1..Len(v.a) |-> <<k, ToStr(v.a[i])>>]
    ELSE << <<k, ToStr(v)>> >>

\* The URLSearchParams list buildQuery fills: the loop over Object.entries.
RECURSIVE searchParams(_)
searchParams(params) ==
    IF params = <<>> THEN <<>>
    ELSE Appended(params[1][1], params[1][2]) \o searchParams(Tail(params))

\* qs.toString()
qsToString(qs) ==
    Join([i \in 1..Len(qs) |-> FormEncode(qs[i][1]) \o <<"=">> \o FormEncode(qs[i][2])],
         <<"&">>)

buildQuery(params) ==
    LET s == qsToString(searchParams(params))
    IN  IF s = <<>> THEN <<>> ELSE <<"?">> \o s

(* --------------------------- useDualRange ------------------------------ *)

RangeNames == {"years", "runtime", "rating"}

CurrentYear == 2026

\* The (lo, hi) bounds and the initial (min, max) of the three hooks; rating
\* is in tenths.
bounds ==
    [years |-> <<1900, CurrentYear>>, runtime |-> <<30, 300>>, rating |-> <<0, 100>>]

initial ==
    [years |-> <<1985, CurrentYear>>, runtime |-> <<60, 180>>, rating |-> <<70, 100>>]

\* Tenths per unit of each range's stored value.
Tenths == [years |-> 10, runtime |-> 10, rating |-> 1]

setMinIgnoringMax(rg, v, lo, hi) == <<clamp(v, lo, hi), rg[2]>>

setMinUpdater(rg, v, lo, hi) == <<clamp(v, lo, Min2(rg[2], hi)), rg[2]>>

setMaxPushingMin(rg, v, lo, hi) == <<Min2(rg[1], clamp(v, lo, hi)), clamp(v, lo, hi)>>

setMaxUpdater(rg, v, lo, hi) == <<rg[1], clamp(v, Max2(rg[1], lo), hi)>>

(* ------------------------------- state --------------------------------- *)

\* The component's state (tconst .. genreOptions, and the dropdown's open and
\* search), then what is outstanding: mounted (the component has not been torn
\* down), genresFetch (the api/genres request), calls (the fetchMovies
\* invocations still awaiting a response, by submission number) and gen (the
\* number of submissions started).  Two history variables serve the
\* properties: settled (the invocation that last ended and what it had
\* received) and last (the handler the last step ran, with its arguments).
VARIABLES
    tconst, primaryTitle, genres, applyAllGenres, ranges, numVotes, limit,
    movies, loading, error, country, genreOptions,
    open, search,
    mounted, genresFetch, calls, gen, settled, last

filterVars == <<tconst, primaryTitle, genres, applyAllGenres, ranges, numVotes, limit>>
dataVars == <<movies, loading, error>>
dropdownVars == <<open, search>>
netVars == <<genresFetch, calls, gen, settled>>
vars == <<filterVars, dataVars, country, genreOptions, dropdownVars, mounted, netVars, last>>

NoneSettled == [id |-> 0, kind |-> "none", message |-> <<>>, items |-> <<>>, raw |-> <<>>]

DefaultNumVotes == 100000
DefaultLimit == 5

Init ==
    /\ tconst = <<>>
    /\ primaryTitle = <<>>
    /\ genres = <<>>
    /\ applyAllGenres = FALSE
    /\ ranges = initial
    /\ numVotes = DefaultNumVotes
    /\ limit = DefaultLimit
    /\ movies = <<>>
    /\ loading = FALSE
    /\ error = Null
    /\ country = S_dk
    /\ genreOptions = GENRE_FALLBACK
    /\ open = FALSE
    /\ search = <<>>
    /\ mounted = TRUE
    /\ genresFetch = "pending"
    /\ calls = <<>>
    /\ gen = 0
    /\ settled = NoneSettled
    /\ last = [op |-> "init"]

(* ----------------------------- queryString ----------------------------- *)

GenresArgArray(g) == Arr([i \in 1..Len(g) |-> Str(g[i])])

GenresArg(g) == OrUndefined(Join(g, <<",">>))

YearKeysSwapped == <<K_end_year, K_start_year>>

YearKeys == <<K_start_year, K_end_year>>

\* The object literal handed to buildQuery, as Object.entries lists it.
queryArgs ==
    << <<K_tconst, OrUndefined(tconst)>>,
       <<K_primary_title, OrUndefined(primaryTitle)>>,
       <<K_genres, GenresArg(genres)>>,
       <<K_apply_all_genres, Num(IF applyAllGenres THEN 10 ELSE 0)>>,
       <<YearKeys[1], Num(ranges.years[1] * Tenths.years)>>,
       <<YearKeys[2], Num(ranges.years[2] * Tenths.years)>>,
       <<K_average_rating_min, Num(ranges.rating[1] * Tenths.rating)>>,
       <<K_average_rating_max, Num(ranges.rating[2] * Tenths.rating)>>,
       <<K_runtime_minutes_min, Num(ranges.runtime[1] * Tenths.runtime)>>,
       <<K_runtime_minutes_max, Num(ranges.runtime[2] * Tenths.runtime)>>,
       <<K_num_votes, Num(numVotes * 10)>>,
       <<K_limit, Num(limit * 10)>> >>

queryParams == searchParams(queryArgs)

queryString == buildQuery(queryArgs)

(* ------------------------ filter panel handlers ------------------------ *)

\* An edit that also dismisses the error on display.
SetTconstClearingError(v) ==
    /\ mounted
    /\ tconst' = v
    /\ error' = Null
    /\ last' = [op |-> "edit"]
    /\ UNCHANGED <<primaryTitle, genres, applyAllGenres, ranges, numVotes, limit,
                   movies, loading, country, genreOptions, dropdownVars, mounted,
                   netVars>>

\* onChange of the two text inputs.
SetTconst(v) ==
    /\ mounted
    /\ tconst' = v
    /\ last' = [op |-> "edit"]
    /\ UNCHANGED <<primaryTitle, genres, applyAllGenres, ranges, numVotes, limit,
                   dataVars, country, genreOptions, dropdownVars, mounted, netVars>>

SetPrimaryTitle(v) ==
    /\ mounted
    /\ primaryTitle' = v
    /\ last' = [op |-> "edit"]
    /\ UNCHANGED <<tconst, genres, applyAllGenres, ranges, numVotes, limit,
                   dataVars, country, genreOptions, dropdownVars, mounted, netVars>>

ToggleApplyAllGenres ==
    /\ mounted
    /\ applyAllGenres' = ~applyAllGenres
    /\ last' = [op |-> "edit"]
    /\ UNCHANGED <<tconst, primaryTitle, genres, ranges, numVotes, limit,
                   dataVars, country, genreOptions, dropdownVars, mounted, netVars>>

SetNumVotes(v) ==
    /\ mounted
    /\ numVotes' = v
    /\ last' = [op |-> "edit"]
    /\ UNCHANGED <<tconst, primaryTitle, genres, applyAllGenres, ranges, limit,
                   dataVars, country, genreOptions, dropdownVars, mounted, netVars>>

SetLimit(v) ==
    /\ mounted
    /\ limit' = v
    /\ last' = [op |-> "edit"]
    /\ UNCHANGED <<tconst, primaryTitle, genres, applyAllGenres, ranges, numVotes,
                   dataVars, country, genreOptions, dropdownVars, mounted, netVars>>

SetCountry(v) ==
    /\ mounted
    /\ country' = v
    /\ last' = [op |-> "edit"]
    /\ UNCHANGED <<filterVars, dataVars, genreOptions, dropdownVars, mounted, netVars>>

\* useDualRange's setMin, setMax; each is one functional setRange update.
SetMin(r, v) ==
    /\ mounted
    /\ ranges' = [ranges EXCEPT ![r] = setMinUpdater(@, v, bounds[r][1], bounds[r][2])]
    /\ last' = [op |-> "setMin", r |-> r, v |-> v]
    /\ UNCHANGED <<tconst, primaryTitle, genres, applyAllGenres, numVotes, limit,
                   dataVars, country, genreOptions, dropdownVars, mounted, netVars>>

SetMax(r, v) ==
    /\ mounted
    /\ ranges' = [ranges EXCEPT ![r] = setMaxUpdater(@, v, bounds[r][1], bounds[r][2])]
    /\ last' = [op |-> "setMax", r |-> r, v |-> v]
    /\ UNCHANGED <<tconst, primaryTitle, genres, applyAllGenres, numVotes, limit,
                   dataVars, country, genreOptions, dropdownVars, mounted, netVars>>

\* DualSlider onChange([a, b]): setMin(a) then setMax(b), applied in order.
SliderChange(r, a, b) ==
    /\ mounted
    /\ ranges' = [ranges EXCEPT ![r] =
                     setMaxUpdater(setMinUpdater(@, a, bounds[r][1], bounds[r][2]),
                                   b, bounds[r][1], bounds[r][2])]
    /\ last' = [op |-> "onChange", r |-> r, a |-> a, b |-> b]
    /\ UNCHANGED <<tconst, primaryTitle, genres, applyAllGenres, numVotes, limit,
                   dataVars, country, genreOptions, dropdownVars, mounted, netVars>>

\* Every field of the filter panel differs from its default.
AllEdited ==
    /\ tconst # <<>>
    /\ primaryTitle # <<>>
    /\ genres # <<>>
    /\ applyAllGenres
    /\ \A r \in RangeNames : ranges[r] # initial[r]
    /\ numVotes # DefaultNumVotes
    /\ limit # DefaultLimit

ResetKeepingRating ==
    /\ mounted
    /\ tconst' = <<>>
    /\ primaryTitle' = <<>>
    /\ genres' = <<>>
    /\ applyAllGenres' = FALSE
    /\ ranges' = [initial EXCEPT !.rating = ranges.rating]
    /\ numVotes' = DefaultNumVotes
    /\ limit' = DefaultLimit
    /\ movies' = <<>>
    /\ error' = Null
    /\ last' = [op |-> "Reset", allEdited |-> AllEdited,
                 hadData |-> (movies # <<>> \/ error # Null)]
    /\ UNCHANGED <<loading, country, genreOptions, dropdownVars, mounted, netVars>>

\* A Reset that also switches the loading indicator off.
ResetClearingLoading ==
    /\ mounted
    /\ tconst' = <<>>
    /\ primaryTitle' = <<>>
    /\ genres' = <<>>
    /\ applyAllGenres' = FALSE
    /\ ranges' = initial
    /\ numVotes' = DefaultNumVotes
    /\ limit' = DefaultLimit
    /\ movies' = <<>>
    /\ error' = Null
    /\ loading' = FALSE
    /\ last' = [op |-> "Reset", allEdited |-> AllEdited,
                 hadData |-> (movies # <<>> \/ error # Null)]
    /\ UNCHANGED <<country, genreOptions, dropdownVars, mounted, netVars>>

\* The Reset button (both copies run the same handler).
Reset ==
    /\ mounted
    /\ tconst' = <<>>
    /\ primaryTitle' = <<>>
    /\ genres' = <<>>
    /\ applyAllGenres' = FALSE
    /\ ranges' = initial
    /\ numVotes' = DefaultNumVotes
    /\ limit' = DefaultLimit
    /\ movies' = <<>>
    /\ error' = Null
    /\ last' = [op |-> "Reset", allEdited |-> AllEdited,
                 hadData |-> (movies # <<>> \/ error # Null)]
    /\ UNCHANGED <<loading, country, genreOptions, dropdownVars, mounted, netVars>>

(* --------------------------- GenresDropdown ---------------------------- *)

Upper == <<"A", "B", "C", "D", "E", "F", "G", "H", "I", "J", "K", "L", "M",
           "N", "O", "P", "Q", "R", "S", "T", "U", "V", "W", "X", "Y", "Z">>
Lower == <<"a", "b", "c", "d", "e", "f", "g", "h", "i", "j", "k", "l", "m",
           "n", "o", "p", "q", "r", "s", "t", "u", "v", "w", "x", "y", "z">>

toLowerCase(s) ==
    [i \in 1..Len(s) |->
        IF \E j \in 1..26 : Upper[j] = s[i]
        THEN Lower[CHOOSE j \in 1..26 : Upper[j] = s[i]]
        ELSE s[i]]

RECURSIVE trimStart(_)
trimStart(s) == IF s # <<>> /\ Head(s) = " " THEN trimStart(Tail(s)) ELSE s

RECURSIVE trimEnd(_)
trimEnd(s) ==
    IF s # <<>> /\ s[Len(s)] = " " THEN trimEnd(SubSeq(s, 1, Len(s) - 1)) ELSE s

trim(s) == trimEnd(trimStart(s))

\* s.includes(q)
includes(s, q) ==
    \E i \in 0..(Len(s) - Len(q)) : SubSeq(s, i + 1, i + Len(q)) = q

Contains(list, x) == \E i \in 1..Len(list) : list[i] = x

RECURSIVE Filter(_, _)
Filter(list, x) ==
    IF list = <<>> THEN <<>>
    ELSE IF Head(list) = x THEN Filter(Tail(list), x)
    ELSE <<Head(list)>> \o Filter(Tail(list), x)

\* The options shown: those whose lower-cased name includes the trimmed,
\* lower-cased search string.
filtered ==
    LET q == toLowerCase(trim(search))
    IN  {genreOptions[i] : i \in {j \in 1..Len(genreOptions) :
                                      includes(toLowerCase(genreOptions[j]), q)}}

toggledAppending(value, opt) == Append(value, opt)

toggled(value, opt) ==
    IF Contains(value, opt) THEN Filter(value, opt) ELSE Append(value, opt)

\* A checkbox of the open panel.
Toggle(opt) ==
    /\ mounted
    /\ open
    /\ opt \in filtered
    /\ genres' = toggled(genres, opt)
    /\ last' = [op |-> "toggle", opt |-> opt, before |-> genres,
                again |-> (last.op = "toggle" /\ last.opt = opt)]
    /\ UNCHANGED <<tconst, primaryTitle, applyAllGenres, ranges, numVotes, limit,
                   dataVars, country, genreOptions, dropdownVars, mounted, netVars>>

ClearClosing ==
    /\ mounted
    /\ open
    /\ genres' = <<>>
    /\ open' = FALSE
    /\ last' = [op |-> "Clear"]
    /\ UNCHANGED <<tconst, primaryTitle, applyAllGenres, ranges, numVotes, limit,
                   dataVars, country, genreOptions, search, mounted, netVars>>

Clear ==
    /\ mounted
    /\ open
    /\ genres' = <<>>
    /\ last' = [op |-> "Clear"]
    /\ UNCHANGED <<tconst, primaryTitle, applyAllGenres, ranges, numVotes, limit,
                   dataVars, country, genreOptions, dropdownVars, mounted, netVars>>

\* The dropdown button: setOpen(o => !o).
ToggleOpen ==
    /\ mounted
    /\ open' = ~open
    /\ last' = [op |-> "setOpen"]
    /\ UNCHANGED <<filterVars, dataVars, country, genreOptions, search, mounted, netVars>>

\* Close and Done: setOpen(false).
Done ==
    /\ mounted
    /\ open
    /\ open' = FALSE
    /\ last' = [op |-> "Done"]
    /\ UNCHANGED <<filterVars, dataVars, country, genreOptions, search, mounted, netVars>>

SetSearch(v) ==
    /\ mounted
    /\ open
    /\ search' = v
    /\ last' = [op |-> "edit"]
    /\ UNCHANGED <<filterVars, dataVars, country, genreOptions, open, mounted, netVars>>

(* ---------------------- fetchMovies / fetchProviders ------------------- *)

MaxSubmits == 2

S_api_movies == <<"/", "a", "p", "i", "/", "m", "o", "v", "i", "e", "s">>
S_api_streaming ==
    <<"/", "a", "p", "i", "/", "s", "t", "r", "e", "a", "m", "i", "n", "g">>
S_title_eq == <<"?", "t", "i", "t", "l", "e", "=">>
S_country_eq == <<"&", "c", "o", "u", "n", "t", "r", "y", "=">>

Without(f, id) == [i \in DOMAIN f \ {id} |-> f[i]]

\* The Generate buttons are rendered with disabled={loading}.
GenerateAlwaysEnabled == TRUE

GenerateEnabled == ~loading

\* A click on either Generate button: fetchMovies up to its first await.
fetchMovies ==
    /\ mounted
    /\ GenerateEnabled
    /\ gen < MaxSubmits
    /\ gen' = gen + 1
    /\ loading' = TRUE
    /\ error' = Null
    /\ calls' = calls @@ ((gen + 1) :>
                  [pc |-> "primary", url |-> S_api_movies \o queryString,
                   items |-> <<>>, reqs |-> <<>>, done |-> <<>>, prov |-> <<>>,
                   raw |-> <<>>])
    /\ last' = [op |-> "fetchMovies"]
    /\ UNCHANGED <<filterVars, movies, country, genreOptions, dropdownVars, mounted,
                   genresFetch, settled>>

\* e?.message ?? "Unknown error" of what the primary request threw.
errorMessage(outcome) ==
    IF outcome.kind = "http" THEN S_HTTP_500 ELSE S_FailedToFetch

\* Array.isArray(data) ? data : data?.movies ?? []
resultArray(data) ==
    IF data.t = "array" THEN data.a
    ELSE IF data.t = "object" /\ data.movies.t = "array" THEN data.movies.a
    ELSE <<>>

\* The value fetchProviders returns for one settled enrichment request.
fetchProvidersIgnoringStatus(outcome) ==
    IF outcome.kind \in {"ok", "http"} /\ outcome.services.t = "array"
    THEN outcome.services.a
    ELSE <<>>

fetchProviders(outcome) ==
    IF outcome.kind = "ok" /\ outcome.services.t = "array" THEN outcome.services.a
    ELSE <<>>

providersUrl(title, ctry) ==
    S_api_streaming \o S_title_eq \o encodeURIComponent(title) \o S_country_eq \o ctry

\* { ...m, providers }
enrich(m, providers) ==
    [tconst |-> m.tconst, primary_title |-> m.primary_title, providers |-> providers]

PrimaryFailedKeepingMovies(id, outcome) ==
    /\ id \in DOMAIN calls
    /\ calls[id].pc = "primary"
    /\ outcome.kind # "ok"
    /\ calls' = Without(calls, id)
    /\ settled' = [id |-> id, kind |-> "error", message |-> errorMessage(outcome),
                   items |-> <<>>, raw |-> <<>>]
    /\ IF mounted
       THEN /\ error' = Str(errorMessage(outcome))
            /\ loading' = FALSE
            /\ UNCHANGED movies
       ELSE UNCHANGED dataVars
    /\ last' = [op |-> "response"]
    /\ UNCHANGED <<filterVars, country, genreOptions, dropdownVars, mounted,
                   genresFetch, gen>>

\* The catch path without the finally block.
PrimaryFailedStillLoading(id, outcome) ==
    /\ id \in DOMAIN calls
    /\ calls[id].pc = "primary"
    /\ outcome.kind # "ok"
    /\ calls' = Without(calls, id)
    /\ settled' = [id |-> id, kind |-> "error", message |-> errorMessage(outcome),
                   items |-> <<>>, raw |-> <<>>]
    /\ IF mounted
       THEN /\ error' = Str(errorMessage(outcome))
            /\ movies' = <<>>
            /\ UNCHANGED loading
       ELSE UNCHANGED dataVars
    /\ last' = [op |-> "response"]
    /\ UNCHANGED <<filterVars, country, genreOptions, dropdownVars, mounted,
                   genresFetch, gen>>

\* The catch/finally path of fetchMovies: the primary request failed.
PrimaryFailed(id, outcome) ==
    /\ id \in DOMAIN calls
    /\ calls[id].pc = "primary"
    /\ outcome.kind # "ok"
    /\ calls' = Without(calls, id)
    /\ settled' = [id |-> id, kind |-> "error", message |-> errorMessage(outcome),
                   items |-> <<>>, raw |-> <<>>]
    /\ IF mounted
       THEN /\ error' = Str(errorMessage(outcome))
            /\ movies' = <<>>
            /\ loading' = FALSE
       ELSE UNCHANGED dataVars
    /\ last' = [op |-> "response"]
    /\ UNCHANGED <<filterVars, country, genreOptions, dropdownVars, mounted,
                   genresFetch, gen>>

\* The primary request succeeded: one enrichment request per item is issued,
\* all with the constant country "dk"; an empty list is published at once.
PrimaryOk(id, outcome) ==
    /\ id \in DOMAIN calls
    /\ calls[id].pc = "primary"
    /\ outcome.kind = "ok"
    /\ LET arr == resultArray(outcome.data)
       IN  IF arr = <<>>
           THEN /\ calls' = Without(calls, id)
                /\ settled' = [id |-> id, kind |-> "results", message |-> <<>>,
                               items |-> <<>>, raw |-> <<>>]
                /\ IF mounted
                   THEN /\ movies' = <<>>
                        /\ loading' = FALSE
                        /\ UNCHANGED error
                   ELSE UNCHANGED dataVars
           ELSE /\ calls' = [calls EXCEPT ![id] =
                      [pc |-> "enrich", url |-> @.url, items |-> arr,
                       reqs |-> [i \in 1..Len(arr) |->
                                    providersUrl(arr[i].primary_title, S_dk)],
                       done |-> [i \in 1..Len(arr) |-> FALSE],
                       prov |-> [i \in 1..Len(arr) |-> <<>>],
                       raw |-> [i \in 1..Len(arr) |->
                                   [kind |-> "pending", services |-> Undef]]]]
                /\ UNCHANGED <<settled, dataVars>>
    /\ last' = [op |-> "response"]
    /\ UNCHANGED <<filterVars, country, genreOptions, dropdownVars, mounted,
                   genresFetch, gen>>

\* Publishing at the first enrichment request that settles, as Promise.race
\* would.
EnrichSettledFirst(id, i, outcome) ==
    /\ id \in DOMAIN calls
    /\ calls[id].pc = "enrich"
    /\ i \in 1..Len(calls[id].items)
    /\ ~calls[id].done[i]
    /\ LET c == calls[id]
           prov == [c.prov EXCEPT ![i] = fetchProviders(outcome)]
           raw == [c.raw EXCEPT ![i] = outcome]
       IN  /\ calls' = Without(calls, id)
           /\ settled' = [id |-> id, kind |-> "results", message |-> <<>>,
                          items |-> c.items, raw |-> raw]
           /\ IF mounted
              THEN /\ movies' = [j \in 1..Len(c.items) |-> enrich(c.items[j], prov[j])]
                   /\ loading' = FALSE
                   /\ UNCHANGED error
              ELSE UNCHANGED dataVars
    /\ last' = [op |-> "response"]
    /\ UNCHANGED <<filterVars, country, genreOptions, dropdownVars, mounted,
                   genresFetch, gen>>

\* One enrichment request settles; when it is the last, Promise.all resolves
\* and the merged list is published.
EnrichSettled(id, i, outcome) ==
    /\ id \in DOMAIN calls
    /\ calls[id].pc = "enrich"
    /\ i \in 1..Len(calls[id].items)
    /\ ~calls[id].done[i]
    /\ LET c == calls[id]
           done == [c.done EXCEPT ![i] = TRUE]
           prov == [c.prov EXCEPT ![i] = fetchProviders(outcome)]
           raw == [c.raw EXCEPT ![i] = outcome]
       IN  IF \A j \in 1..Len(done) : done[j]
           THEN /\ calls' = Without(calls, id)
                /\ settled' = [id |-> id, kind |-> "results", message |-> <<>>,
                               items |-> c.items, raw |-> raw]
                /\ IF mounted
                   THEN /\ movies' = [j \in 1..Len(c.items) |-> enrich(c.items[j], prov[j])]
                        /\ loading' = FALSE
                        /\ UNCHANGED error
                   ELSE UNCHANGED dataVars
           ELSE /\ calls' = [calls EXCEPT ![id] =
                                [c EXCEPT !.done = done, !.prov = prov, !.raw = raw]]
                /\ UNCHANGED <<settled, dataVars>>
    /\ last' = [op |-> "response"]
    /\ UNCHANGED <<filterVars, country, genreOptions, dropdownVars, mounted,
                   genresFetch, gen>>

(* ------------------------ genres effect, teardown ---------------------- *)

cancelledNever == FALSE

\* The effect's flag, set by its cleanup.
cancelled == ~mounted

GenresSettledAnyList(outcome) ==
    /\ genresFetch = "pending"
    /\ genresFetch' = "done"
    /\ IF outcome.kind = "ok" /\ ~cancelled
       THEN genreOptions' = outcome.list
       ELSE UNCHANGED genreOptions
    /\ last' = [op |-> "genres", outcome |-> outcome]
    /\ UNCHANGED <<filterVars, dataVars, country, dropdownVars, mounted, calls, gen,
                   settled>>

\* The api/genres request settles.
GenresSettled(outcome) ==
    /\ genresFetch = "pending"
    /\ genresFetch' = "done"
    /\ IF outcome.kind = "ok" /\ ~cancelled /\ Len(outcome.list) > 0
       THEN genreOptions' = outcome.list
       ELSE UNCHANGED genreOptions
    /\ last' = [op |-> "genres", outcome |-> outcome]
    /\ UNCHANGED <<filterVars, dataVars, country, dropdownVars, mounted, calls, gen,
                   settled>>

\* The component is torn down; later setState calls change nothing.
Unmount ==
    /\ mounted
    /\ mounted' = FALSE
    /\ last' = [op |-> "unmount"]
    /\ UNCHANGED <<filterVars, dataVars, country, genreOptions, dropdownVars, netVars>>

(* ------------------------------- inputs -------------------------------- *)

\* Values a slider reports: one below the lower bound, one inside, one above
\* the upper bound.
SliderInputs ==
    [years |-> {1899, 1990, CurrentYear + 1},
     runtime |-> {29, 120, 301},
     rating |-> {-1, 55, 101}]

mA == [tconst |-> <<"t", "t", "1">>, primary_title |-> <<"A">>]
mB == [tconst |-> <<"t", "t", "2">>, primary_title |-> <<"B", " ", "C">>]

PrimaryFailures == {[kind |-> "network"], [kind |-> "http"]}

PrimaryData ==
    {Arr(<<>>), Arr(<<mA>>), Arr(<<mA, mB>>),
     [t |-> "object", movies |-> Arr(<<mB>>)], [t |-> "object", movies |-> Undef]}

PrimarySuccesses == {[kind |-> "ok", data |-> d] : d \in PrimaryData}

\* How an enrichment request settles: the kind of response and, when it has a
\* JSON body, that body's services field.
EnrichOutcomes ==
    {[kind |-> "network", services |-> Undef],
     [kind |-> "http", services |-> Arr(<< <<"X">> >>)],
     [kind |-> "json", services |-> Undef],
     [kind |-> "ok", services |-> Undef],
     [kind |-> "ok", services |-> Arr(<<>>)],
     [kind |-> "ok", services |-> Arr(<< <<"X">> >>)]}

Ids == 1..MaxSubmits

(* --------------------------- specifications ---------------------------- *)

\* The range hooks alone: every slider input, and Reset.
NextRange ==
    \/ \E r \in RangeNames : \E v \in SliderInputs[r] : SetMin(r, v)
    \/ \E r \in RangeNames : \E v \in SliderInputs[r] : SetMax(r, v)
    \/ \E r \in RangeNames : \E a, b \in SliderInputs[r] : SliderChange(r, a, b)
    \/ Reset

SpecRange == Init /\ [][NextRange]_vars

\* The filter panel: every field edited, no request.
NextFilter ==
    \/ \E v \in {<<>>, S_tt1} : SetTconst(v)
    \/ \E v \in {<<>>, <<"A", " ", "B">>} : SetPrimaryTitle(v)
    \/ ToggleOpen
    \/ \E opt \in {G_Drama, G_Sci_Fi} : Toggle(opt)
    \/ Clear
    \/ ToggleApplyAllGenres
    \/ \E r \in RangeNames :
           \E a \in {bounds[r][1], initial[r][1]}, b \in {initial[r][2], bounds[r][2]} :
               SliderChange(r, a, b)
    \/ \E v \in {0, DefaultNumVotes} : SetNumVotes(v)
    \/ \E v \in {5, 20} : SetLimit(v)
    \/ Reset

SpecFilter == Init /\ [][NextFilter]_vars

\* Reset after edits and submissions: every field is edited between
\* submissions, tconst also during one.
NextReset ==
    \/ \E v \in {S_tt1} : SetTconst(v)
    \/ ~loading /\ SetPrimaryTitle(<<"A">>)
    \/ ~loading /\ ToggleOpen
    \/ ~loading /\ Toggle(G_Drama)
    \/ ~loading /\ ToggleApplyAllGenres
    \/ ~loading /\ \E r \in RangeNames : SliderChange(r, bounds[r][1], bounds[r][2])
    \/ ~loading /\ SetNumVotes(0)
    \/ ~loading /\ SetLimit(20)
    \/ Reset
    \/ fetchMovies
    \/ \E id \in Ids : PrimaryFailed(id, [kind |-> "http"])
    \/ \E id \in Ids : PrimaryOk(id, [kind |-> "ok", data |-> Arr(<<mA>>)])
    \/ \E id \in Ids : \E o \in {[kind |-> "network", services |-> Undef],
                                 [kind |-> "ok", services |-> Arr(<< <<"X">> >>)]} :
           EnrichSettled(id, 1, o)

SpecReset == Init /\ [][NextReset]_vars

\* The search pipeline, with one edit of the filter state.
Next ==
    \/ \E v \in {S_tt1} : SetTconst(v)
    \/ Reset
    \/ fetchMovies
    \/ \E id \in Ids : \E o \in PrimaryFailures : PrimaryFailed(id, o)
    \/ \E id \in Ids : \E o \in PrimarySuccesses : PrimaryOk(id, o)
    \/ \E id \in Ids : \E i \in 1..2 : \E o \in EnrichOutcomes : EnrichSettled(id, i, o)

Spec == Init /\ [][Next]_vars

(* ------------------------------ claims --------------------------------- *)

\* C1: in every reachable state each range satisfies
\* lowerBound <= min <= max <= upperBound, whatever values setMin, setMax and
\* Reset were called with.
RangeInvariant ==
    \A r \in RangeNames :
        /\ bounds[r][1] <= ranges[r][1]
        /\ ranges[r][1] <= ranges[r][2]
        /\ ranges[r][2] <= bounds[r][2]

\* A value above the upper bound was given to setMin and a value below the
\* lower bound to setMax, and both were clamped.
RangeClamped ==
    /\ last.op = "setMax"
    /\ last.v < bounds[last.r][1]
    /\ ranges[last.r][1] = bounds[last.r][2]
    /\ ranges[last.r][2] = bounds[last.r][2]

\* The value clamp(v, lo, hi) has, written out by cases.
Clamped(v, lo, hi) == IF v < lo THEN lo ELSE IF v > hi THEN hi ELSE v

\* C7: setMin(v) sets min to clamp(v, lowerBound, min(max, upperBound)) and
\* setMax(v) sets max to clamp(v, max(min, lowerBound), upperBound); each
\* leaves the other end, the other ranges and every other field unchanged.
SetMinSetMaxFrame ==
    [][/\ last'.op = "setMin" =>
            LET r == last'.r
                hi == IF ranges[r][2] <= bounds[r][2] THEN ranges[r][2] ELSE bounds[r][2]
            IN  /\ ranges'[r][1] = Clamped(last'.v, bounds[r][1], hi)
                /\ ranges'[r][2] = ranges[r][2]
                /\ \A q \in RangeNames \ {r} : ranges'[q] = ranges[q]
                /\ UNCHANGED <<tconst, primaryTitle, genres, applyAllGenres, numVotes,
                               limit, dataVars, country, genreOptions, dropdownVars,
                               mounted, netVars>>
       /\ last'.op = "setMax" =>
            LET r == last'.r
                lo == IF ranges[r][1] >= bounds[r][1] THEN ranges[r][1] ELSE bounds[r][1]
            IN  /\ ranges'[r][2] = Clamped(last'.v, lo, bounds[r][2])
                /\ ranges'[r][1] = ranges[r][1]
                /\ \A q \in RangeNames \ {r} : ranges'[q] = ranges[q]
                /\ UNCHANGED <<tconst, primaryTitle, genres, applyAllGenres, numVotes,
                               limit, dataVars, country, genreOptions, dropdownVars,
                               mounted, netVars>>]_vars

\* setMin has just moved min onto an interior value, below a max that an
\* earlier call had moved.
SetMinApplied ==
    /\ last.op = "setMin"
    /\ ranges[last.r][1] = last.v
    /\ ranges[last.r][1] # initial[last.r][1]
    /\ ranges[last.r][2] # initial[last.r][2]

(* --- the serialized query, read as the list of its (key, value) entries --- *)

KeyCount(qs, k) == Cardinality({i \in 1..Len(qs) : qs[i][1] = k})

Lookup(qs, k) == qs[CHOOSE i \in 1..Len(qs) : qs[i][1] = k][2]

Carries(qs, k, value) == KeyCount(qs, k) = 1 /\ Lookup(qs, k) = value

S_min == <<"_", "m", "i", "n">>
S_max == <<"_", "m", "a", "x">>

EndsWith(s, suffix) ==
    Len(s) > Len(suffix) /\ SubSeq(s, Len(s) - Len(suffix) + 1, Len(s)) = suffix

Stem(s, suffix) == SubSeq(s, 1, Len(s) - Len(suffix))

\* The decimal text of the end e (1: min, 2: max) of range r.
RangeText(r, e) == NumToStr(ranges[r][e] * Tenths[r])

\* C8: a key is omitted exactly when its field's value is empty (the empty
\* string, or the empty category list); a number is transmitted also when it
\* is 0, and apply_all_genres always, as 1 or 0.
OmitsExactlyEmpty ==
    LET qs == queryParams
    IN  /\ KeyCount(qs, K_tconst) = (IF tconst = <<>> THEN 0 ELSE 1)
        /\ tconst # <<>> => Lookup(qs, K_tconst) = tconst
        /\ KeyCount(qs, K_primary_title) = (IF primaryTitle = <<>> THEN 0 ELSE 1)
        /\ primaryTitle # <<>> => Lookup(qs, K_primary_title) = primaryTitle
        /\ KeyCount(qs, K_genres) = (IF genres = <<>> THEN 0 ELSE 1)
        /\ Carries(qs, K_apply_all_genres, IF applyAllGenres THEN <<"1">> ELSE <<"0">>)
        /\ Carries(qs, K_num_votes,
                   IF numVotes = 0 THEN <<"0">> ELSE NumToStr(numVotes * 10))
        /\ Carries(qs, K_limit, NumToStr(limit * 10))
        /\ Carries(qs, K_average_rating_min,
                   IF ranges.rating[1] = 0 THEN <<"0">> ELSE RangeText("rating", 1))
        /\ \A k \in {K_start_year, K_end_year, K_average_rating_max,
                     K_runtime_minutes_min, K_runtime_minutes_max} : KeyCount(qs, k) = 1

\* Zero popularity, a zero rating minimum and a false flag are in the query
\* while the empty tconst is not.
ZeroesTransmitted ==
    /\ numVotes = 0
    /\ ranges.rating[1] = 0
    /\ ~applyAllGenres
    /\ tconst = <<>>
    /\ primaryTitle # <<>>
    /\ Lookup(queryParams, K_num_votes) = <<"0">>

\* C9: the chosen categories are one genres entry whose value is the
\* categories joined by commas, and no genres entry when none is chosen.
GenresOneKey ==
    LET qs == queryParams
    IN  /\ genres = <<>> => KeyCount(qs, K_genres) = 0
        /\ genres # <<>> => Carries(qs, K_genres, Join(genres, <<",">>))

\* Two categories are chosen and travel under one key.
TwoGenresChosen ==
    /\ Len(genres) = 2
    /\ Lookup(queryParams, K_genres) = genres[1] \o <<",">> \o genres[2]

\* C10 as stated: each range travels under two keys <field>_min and
\* <field>_max of one stem, carrying its min and its max.
RangeKeysMinMax ==
    LET qs == queryParams
    IN  \A r \in RangeNames :
            \E i, j \in 1..Len(qs) :
                /\ EndsWith(qs[i][1], S_min)
                /\ EndsWith(qs[j][1], S_max)
                /\ Stem(qs[i][1], S_min) = Stem(qs[j][1], S_max)
                /\ qs[i][2] = RangeText(r, 1)
                /\ qs[j][2] = RangeText(r, 2)

\* C10 amended: rating and runtime travel as average_rating_min/_max and
\* runtime_minutes_min/_max, the year range as start_year and end_year; each
\* key occurs once and carries the range's current min or max.
RangeKeys ==
    LET qs == queryParams
    IN  /\ Carries(qs, K_start_year, RangeText("years", 1))
        /\ Carries(qs, K_end_year, RangeText("years", 2))
        /\ Carries(qs, K_average_rating_min, RangeText("rating", 1))
        /\ Carries(qs, K_average_rating_max, RangeText("rating", 2))
        /\ Carries(qs, K_runtime_minutes_min, RangeText("runtime", 1))
        /\ Carries(qs, K_runtime_minutes_max, RangeText("runtime", 2))
        /\ \A k \in {K_average_rating_min, K_runtime_minutes_min} : EndsWith(k, S_min)
        /\ \A k \in {K_average_rating_max, K_runtime_minutes_max} : EndsWith(k, S_max)

\* Every range has been moved off its initial values, min and max apart.
RangesMoved ==
    /\ ranges.runtime[1] # initial.runtime[1]
    /\ ranges.runtime[2] # initial.runtime[2]
    /\ \A r \in RangeNames : ranges[r] # initial[r] /\ ranges[r][1] < ranges[r][2]
    /\ Lookup(queryParams, K_start_year) = <<"1", "9", "0", "0">>

(* ------------------------- the search pipeline ------------------------- *)

\* C2: only the latest submission can write the visible outcome: every
\* submission still in flight is the latest one started, and once none is in
\* flight the outcome last written is the latest submission's.
OnlyLatestWrites ==
    /\ \A id \in DOMAIN calls : id = gen
    /\ (DOMAIN calls = {} /\ gen > 0) => settled.id = gen

\* A second submission has settled with results after the first one settled.
SecondSubmissionShown ==
    /\ gen = 2
    /\ DOMAIN calls = {}
    /\ settled.id = 2
    /\ settled.kind = "results"
    /\ movies # <<>>
    /\ ~loading

\* C3: a submission whose primary request succeeded with N items ends in
\* results: N items in the primary response's order, loading false, no error;
\* an item's providers are empty exactly when its enrichment failed or had no
\* services array or an empty one, and are the returned services otherwise.
EnrichmentIsolation ==
    [][(settled' # settled /\ settled'.kind = "results") =>
          /\ Len(movies') = Len(settled'.items)
          /\ error' = Null
          /\ ~loading'
          /\ \A i \in 1..Len(settled'.items) :
                LET o == settled'.raw[i]
                    failed == o.kind # "ok" \/ o.services.t # "array"
                IN  /\ movies'[i].tconst = settled'.items[i].tconst
                    /\ movies'[i].primary_title = settled'.items[i].primary_title
                    /\ (movies'[i].providers = <<>>) <=> (failed \/ o.services.a = <<>>)
                    /\ ~failed => movies'[i].providers = o.services.a]_vars

\* Two items were returned; the first one's enrichment failed with a non-success
\* status, the second one's returned a service; both items are published.
OneEnrichmentFailed ==
    /\ settled.id = gen
    /\ settled.kind = "results"
    /\ Len(settled.items) = 2
    /\ settled.raw[1].kind = "http"
    /\ settled.raw[2].kind = "ok"
    /\ Len(movies) = 2
    /\ movies[1].providers = <<>>
    /\ movies[2].providers = << <<"X">> >>
    /\ error = Null
    /\ ~loading

\* C4: a failed primary request ends the submission with a non-empty error,
\* no results and loading false; no enrichment request is issued for it, and
\* a request is only ever started by a click on Generate.
PrimaryFailureEndsInError ==
    [][/\ (settled' # settled /\ settled'.kind = "error") =>
              /\ settled'.message # <<>>
              /\ error' = Str(settled'.message)
              /\ movies' = <<>>
              /\ ~loading'
              /\ settled'.id \notin DOMAIN calls'
              /\ gen' = gen
       /\ (DOMAIN calls' \ DOMAIN calls # {}) => last'.op = "fetchMovies"]_vars

\* The second submission's primary request has failed with a non-success
\* status.
SecondSubmissionFailed ==
    /\ gen = 2
    /\ settled.id = 2
    /\ settled.kind = "error"
    /\ error = Str(S_HTTP_500)
    /\ movies = <<>>
    /\ ~loading
    /\ DOMAIN calls = {}

\* C5 as stated: exactly one of idle, loading, error and results is current.
OneOutcome ==
    \/ ~loading /\ error = Null /\ movies = <<>>
    \/ loading /\ error = Null /\ movies = <<>>
    \/ ~loading /\ error # Null /\ movies = <<>>
    \/ ~loading /\ error = Null /\ movies # <<>>

\* C6: a Reset step sets every filter field to its default, empties results
\* and error, and starts no request.
ResetRestoresDefaults ==
    [][last'.op = "Reset" =>
          /\ tconst' = <<>>
          /\ primaryTitle' = <<>>
          /\ genres' = <<>>
          /\ applyAllGenres' = FALSE
          /\ ranges' = [years |-> <<1985, CurrentYear>>, runtime |-> <<60, 180>>,
                        rating |-> <<70, 100>>]
          /\ numVotes' = 100000
          /\ limit' = 5
          /\ movies' = <<>>
          /\ error' = Null
          /\ UNCHANGED <<calls, gen, genresFetch, loading>>]_vars

\* Reset has run with every field edited and an outcome on display, after a
\* submission.
ResetAfterEdits ==
    /\ last.op = "Reset"
    /\ last.allEdited
    /\ last.hadData
    /\ gen >= 1

(* ----------------------- the default query ----------------------------- *)

\* Every filter field has the value it is constructed with.
AtDefaults ==
    /\ tconst = <<>>
    /\ primaryTitle = <<>>
    /\ genres = <<>>
    /\ applyAllGenres = FALSE
    /\ ranges = [years |-> <<1985, CurrentYear>>, runtime |-> <<60, 180>>,
                 rating |-> <<70, 100>>]
    /\ numVotes = 100000
    /\ limit = 5

\* The first place at which q occurs in s, 0 when it does not occur.
IndexOf(s, q) ==
    IF includes(s, q)
    THEN 1 + CHOOSE i \in 0..(Len(s) - Len(q)) :
                 /\ SubSeq(s, i + 1, i + Len(q)) = q
                 /\ \A j \in 0..(i - 1) : SubSeq(s, j + 1, j + Len(q)) # q
    ELSE 0

\* key=value as it stands in the query string, after ? or &.
Pair(sep, k, value) == <<sep>> \o k \o <<"=">> \o value

\* C11: with every filter at its default the query has start_year=1985,
\* end_year=<current year>, average_rating_min=7, average_rating_max=10 and
\* limit=5, in that order, and no genres, tconst or primary_title key.
DefaultQuery ==
    AtDefaults =>
        LET qs == queryParams
            str == queryString
            p1 == IndexOf(str, Pair("&", K_start_year, <<"1", "9", "8", "5">>))
            p2 == IndexOf(str, Pair("&", K_end_year, IntToStr(CurrentYear)))
            p3 == IndexOf(str, Pair("&", K_average_rating_min, <<"7">>) \o <<"&">>)
            p4 == IndexOf(str, Pair("&", K_average_rating_max, <<"1", "0">>) \o <<"&">>)
            p5 == IndexOf(str, Pair("&", K_limit, <<"5">>))
        IN  /\ 0 < p1 /\ p1 < p2 /\ p2 < p3 /\ p3 < p4 /\ p4 < p5
            /\ p5 + Len(Pair("&", K_limit, <<"5">>)) = Len(str) + 1
            /\ \A k \in {K_genres, K_tconst, K_primary_title} :
                   /\ KeyCount(qs, k) = 0
                   /\ ~includes(str, <<"&">> \o k \o <<"=">>)
                   /\ ~includes(str, <<"?">> \o k \o <<"=">>)

\* Reset has brought every edited field back to its default.
DefaultsRestored ==
    /\ AtDefaults
    /\ last.op = "Reset"
    /\ last.allEdited

(* ------------------- the country of the enrichment --------------------- *)

\* What the country select reports: its options carry no value attribute, so
\* e.target.value is the option's text, the label of a JW_COUNTRIES entry.
S_Denmark == <<"D", "e", "n", "m", "a", "r", "k">>
S_United_States ==
    <<"U", "n", "i", "t", "e", "d", " ", "S", "t", "a", "t", "e", "s">>
CountryLabels == {S_Denmark, S_United_States}

\* Edits of every kind, also while a submission is in flight.
NextEdits ==
    \/ \E v \in {<<>>, S_tt1} : SetTconst(v)
    \/ \E a \in {bounds.rating[1], initial.rating[1]} :
           SliderChange("rating", a, bounds.rating[2])
    \/ ToggleOpen
    \/ Toggle(G_Drama)
    \/ Clear
    \/ \E v \in CountryLabels : SetCountry(v)
    \/ fetchMovies
    \/ \E id \in Ids : PrimaryFailed(id, [kind |-> "http"])
    \/ \E id \in Ids : PrimaryOk(id, [kind |-> "ok", data |-> Arr(<<mA>>)])
    \/ \E id \in Ids : EnrichSettled(id, 1, [kind |-> "ok", services |-> Arr(<< <<"X">> >>)])

SpecEdits == Init /\ [][NextEdits]_vars

\* C13: the enrichment requests a submission issues are keyed by the item's
\* title and by the country the user has selected.
EnrichmentKeyedBySelectedCountry ==
    [][\A id \in DOMAIN calls' :
           (/\ calls'[id].pc = "enrich"
            /\ id \in DOMAIN calls
            /\ calls[id].pc = "primary")
           => \A i \in 1..Len(calls'[id].items) :
                  calls'[id].reqs[i] =
                      providersUrl(calls'[id].items[i].primary_title, country)]_vars

(* ------------------- the vocabulary and the dropdown ------------------- *)

S_Noir == <<"N", "o", "i", "r">>
S_dr == <<"d", "r">>

\* How the api/genres request settles: the kind of response and, when it has
\* a JSON body, the list in it.
GenreResponses ==
    {[kind |-> "network", list |-> <<>>],
     [kind |-> "http", list |-> <<G_Drama>>],
     [kind |-> "json", list |-> <<>>],
     [kind |-> "ok", list |-> <<>>],
     [kind |-> "ok", list |-> <<G_Drama, S_Noir>>]}

\* The dropdown, the vocabulary fetch and the teardown of the page.
NextVocab ==
    \/ ToggleOpen
    \/ \E opt \in {G_Drama, G_Sci_Fi, S_Noir} : Toggle(opt)
    \/ Clear
    \/ Done
    \/ \E v \in {<<>>, S_dr} : SetSearch(v)
    \/ \E o \in GenreResponses : GenresSettled(o)
    \/ Unmount

SpecVocab == Init /\ [][NextVocab]_vars

\* The step is the settling of the vocabulary request with a usable list.
UsableList(l) == l.op = "genres" /\ l.outcome.kind = "ok" /\ Len(l.outcome.list) > 0

\* C14: the vocabulary is replaced only by a successful fetch of a non-empty
\* list; a network error, a non-success status or an empty payload keeps the
\* held list and surfaces no error; the vocabulary is never empty.
VocabularyReplacedOnlyByUsableFetch ==
    /\ [](Len(genreOptions) > 0)
    /\ [][/\ genreOptions' # genreOptions
              => UsableList(last') /\ genreOptions' = last'.outcome.list
          /\ (last'.op = "genres" /\ ~UsableList(last'))
              => genreOptions' = genreOptions
          /\ last'.op = "genres" => UNCHANGED <<error, movies, loading>>]_vars

\* The request failed or came back empty, and the fallback list is still held.
FallbackRetained ==
    /\ last.op = "genres"
    /\ ~UsableList(last)
    /\ mounted
    /\ genreOptions = GENRE_FALLBACK
    /\ error = Null

\* C15: a vocabulary response that arrives after the teardown changes neither
\* the vocabulary nor any other state.
LateVocabularyIgnored ==
    [][(~mounted /\ last'.op = "genres")
          => UNCHANGED <<genreOptions, filterVars, dataVars, country, dropdownVars,
                         mounted, calls, gen, settled>>]_vars

\* A usable list arrived after the teardown and was dropped.
UsableListArrivedLate ==
    /\ ~mounted
    /\ UsableList(last)
    /\ genreOptions = GENRE_FALLBACK
    /\ genreOptions # last.outcome.list

\* The elements of a list, as a set.
Elems(list) == {list[i] : i \in 1..Len(list)}

NoDuplicates(list) == \A i, j \in 1..Len(list) : list[i] = list[j] => i = j

\* C16: a toggle adds an absent category and removes a present one; the
\* chosen list never holds a category twice; toggling the same category twice
\* in a row restores the chosen set.
ToggleAddsOrRemoves ==
    /\ [](NoDuplicates(genres))
    /\ [][last'.op = "toggle"
             => /\ last'.before = genres
                /\ Elems(genres') = IF last'.opt \in Elems(genres)
                                    THEN Elems(genres) \ {last'.opt}
                                    ELSE Elems(genres) \cup {last'.opt}
                /\ (last.op = "toggle" /\ last.opt = last'.opt)
                       => /\ last'.again
                          /\ Elems(genres') = Elems(last.before)]_vars

\* The same category was toggled twice in a row, off and on again, with
\* another one chosen: the set is restored, the order is not.
ToggledTwice ==
    /\ last.op = "toggle"
    /\ last.again
    /\ Len(genres) = 2
    /\ genres[2] = last.opt
    /\ last.before = <<genres[1]>>

\* C17: Clear empties the chosen list and leaves the panel open and the search
\* text as they were; Done and Close close the panel and leave the chosen list
\* as it was.
ClearAndDoneFrame ==
    [][/\ last'.op = "Clear"
          => genres' = <<>> /\ open /\ UNCHANGED <<open, search>>
       /\ last'.op = "Done"
          => ~open' /\ UNCHANGED <<genres, search>>
       /\ last'.op \in {"Clear", "Done"}
          => UNCHANGED <<tconst, primaryTitle, applyAllGenres, ranges, numVotes,
                         limit, dataVars, country, genreOptions, mounted, netVars>>]_vars

\* Clear was pressed in the open panel with a search text typed.
ClearedWhileSearching ==
    /\ last.op = "Clear"
    /\ genres = <<>>
    /\ open
    /\ search = S_dr

(* --------------------------- the fan-in barrier ------------------------ *)

\* C18: a submission publishes its results only after every one of its
\* enrichment requests has settled; a list in which only some items are
\* enriched is never held, and every published item has a providers list.
FanInBarrier ==
    /\ [](\A j \in 1..Len(movies) :
             /\ "providers" \in DOMAIN movies[j]
             /\ movies[j].providers \in Seq({<<"X">>}))
    /\ [][/\ (movies' # movies /\ movies' # <<>>)
              => /\ last'.op = "response"
                 /\ settled'.kind = "results"
                 /\ settled'.id \in DOMAIN calls
                 /\ settled'.id \notin DOMAIN calls'
                 /\ Len(settled'.raw) = Len(calls[settled'.id].items)
                 /\ Len(movies') = Len(settled'.raw)
                 /\ \A j \in 1..Len(settled'.raw) : settled'.raw[j].kind # "pending"
          /\ (/\ last'.op = "response"
              /\ \E id \in DOMAIN calls' :
                     /\ calls'[id].pc = "enrich"
                     /\ \E j \in 1..Len(calls'[id].done) : ~calls'[id].done[j])
              => UNCHANGED dataVars]_vars

\* One of two enrichment requests has settled with providers and nothing of
\* the submission is on display.
PartlyEnriched ==
    \E id \in DOMAIN calls :
        /\ calls[id].pc = "enrich"
        /\ calls[id].done = <<TRUE, FALSE>>
        /\ calls[id].prov[1] # <<>>
        /\ loading
        /\ movies = <<>>

(* ------------------------ edits and submissions ------------------------ *)

\* The handlers that edit a filter field, a range, the chosen categories, the
\* dropdown or the country.
EditOps == {"edit", "setMin", "setMax", "onChange", "toggle", "Clear", "setOpen", "Done"}

\* C19: requests are issued only by a submission: an edit issues no request
\* and leaves loading, error and results alone; the primary request carries
\* the query string of the filter state at the moment of the submission, and
\* edits made while it is in flight do not alter it.
RequestsOnlyBySubmission ==
    [][/\ last'.op \in EditOps
          => UNCHANGED <<calls, gen, genresFetch, settled, dataVars>>
       /\ DOMAIN calls' \ DOMAIN calls # {}
          => /\ last'.op = "fetchMovies"
             /\ DOMAIN calls' \ DOMAIN calls = {gen'}
       /\ last'.op = "fetchMovies"
          => LET url == calls'[gen'].url
             IN  /\ calls'[gen'].pc = "primary"
                 /\ url = S_api_movies \o queryString
                 /\ filterVars' = filterVars
                 /\ tconst # <<>> <=> includes(url, Pair("?", K_tconst, tconst) \o <<"&">>)
                 /\ includes(url, Pair("&", K_average_rating_min,
                                       NumToStr(ranges.rating[1])) \o <<"&">>)
       /\ \A id \in DOMAIN calls \cap DOMAIN calls' :
              calls'[id].url = calls[id].url]_vars

\* A filter was edited while the submission is in flight: the request still
\* carries the query string of the submission.
EditedWhileLoading ==
    /\ last.op = "edit"
    /\ loading
    /\ tconst = S_tt1
    /\ \E id \in DOMAIN calls :
           /\ calls[id].pc = "primary"
           /\ calls[id].url # S_api_movies \o queryString
           /\ ~includes(calls[id].url, K_tconst)

(* ------------------------------ liveness ------------------------------- *)

\* Some outstanding request of a submission settles.
Settle ==
    \E id \in Ids :
        \/ \E o \in PrimaryFailures : PrimaryFailed(id, o)
        \/ \E o \in PrimarySuccesses : PrimaryOk(id, o)
        \/ \E i \in 1..2 : \E o \in EnrichOutcomes : EnrichSettled(id, i, o)

\* Every request that is issued settles eventually.
SpecLive == Init /\ [][Next]_vars /\ WF_vars(Settle)

\* No request of the latest submission is outstanding: it has ended, in
\* results or in an error.
Ended ==
    /\ DOMAIN calls = {}
    /\ settled.id = gen
    /\ settled.kind \in {"results", "error"}
    /\ settled.kind = "error" => error = Str(settled.message) \/ last.op # "response"

\* C20: provided every request settles, every submission leaves loading and
\* ends in results or an error, and a new submission is then accepted; loading
\* is never left on with nothing outstanding, also when Reset is pressed while
\* loading.
EverySubmissionEnds ==
    /\ [](gen = 0 \/ DOMAIN calls # {} \/ (Ended /\ ~loading /\ GenerateEnabled))
    /\ [](loading => \E id \in DOMAIN calls : id = gen)
    /\ loading ~> (Ended /\ ~loading /\ last.op = "response")

\* The first submission ended in an error and the second has been accepted.
NextSubmissionAccepted ==
    /\ last.op = "fetchMovies"
    /\ gen = 2
    /\ settled.id = 1
    /\ settled.kind = "error"
    /\ loading
    /\ error = Null

(* ----------------------- one submission in flight --------------------- *)

\* C21: at most one submission is in flight: a submission starts only while
\* loading is false and turns it on; loading turns off only when that same
\* submission has settled; Reset does not change loading.
OneSubmissionInFlight ==
    /\ [](/\ Cardinality(DOMAIN calls) <= 1
          /\ loading <=> DOMAIN calls # {})
    /\ [][/\ gen' # gen
             => /\ ~loading /\ loading'
                /\ gen' = gen + 1
                /\ DOMAIN calls = {}
                /\ DOMAIN calls' = {gen'}
          /\ (~loading /\ loading') => last'.op = "fetchMovies"
          /\ (loading /\ ~loading')
             => /\ last'.op = "response"
                /\ DOMAIN calls = {gen}
                /\ DOMAIN calls' = {}
                /\ settled'.id = gen
          /\ last'.op = "Reset" => loading' = loading /\ calls' = calls /\ gen' = gen]_vars

\* Reset was pressed while the second submission is loading.
ResetWhileLoading ==
    /\ last.op = "Reset"
    /\ loading
    /\ gen = 2
    /\ DOMAIN calls = {2}

(* --------------------- Reset and late responses ------------------------ *)

\* C22: once Reset has cleared results and error they stay cleared until the
\* next submission is started, also when responses of a submission that was
\* loading at the Reset arrive afterwards: the step after a Reset, unless it
\* starts a submission, leaves results empty and error null.
ClearedUntilNextSubmission ==
    [][(last.op = "Reset" /\ last'.op # "fetchMovies")
          => movies' = <<>> /\ error' = Null]_vars

(* ------------------------ the slider's change event -------------------- *)

\* C23: a change event reporting a pair (a, b) within the bounds, a <= b,
\* leaves the range equal to (a, b) whatever the range was before.
SliderChangeSetsPair ==
    [][(/\ last'.op = "onChange"
        /\ bounds[last'.r][1] <= last'.a
        /\ last'.a <= last'.b
        /\ last'.b <= bounds[last'.r][2])
          => ranges'[last'.r] = <<last'.a, last'.b>>]_vars

(* --------------------- chosen categories and vocabulary ---------------- *)

\* C24: in every state the chosen categories all belong to the current
\* vocabulary, also after a fetched list has replaced the fallback list.
ChosenWithinVocabulary ==
    \A i \in 1..Len(genres) : Contains(genreOptions, genres[i])

====
